---- MODULE Spec2Model ----
(***************************************************************************)
(* Model of crypto_forecast.py: the estimator fetch_crypto_data, the GBM   *)
(* simulator simulate_crypto_prices (which also computes the terminal      *)
(* statistics), the renderer plot_crypto_forecast and the __main__ loop.   *)
(*                                                                         *)
(* Numbers.  A float is an integer, or one of the three IEEE specials      *)
(* NaN, PInf, NInf.  Returns, mu, sigma and the draws Z are fixed point    *)
(* with RS units to one.  Prices are integers.  The terminal statistics    *)
(* are kept exactly, in units of 1/ST of a price.  exp is the base-2       *)
(* exponential, exact at whole exponents and linear between them.          *)
(***************************************************************************)
EXTENDS Integers, Sequences, FiniteSets, TLC

(* ---------------------------------------------------------------- bounds *)
\* Longest series the exchange returns in the model.
MaxLen == 4
\* Largest days / sims argument tried on simulate_crypto_prices.
MaxDays == 3
MaxSims == 3
\* The module constants of the source, scaled down (30, 10000 and 100 there).
FORECAST_DAYS == 3
N_SIMS == 3
PlotCap == 2
\* Length of the pseudo-random stream before the model wraps it.
RngPeriod == 5
\* How many times simulate_crypto_prices is called in one process.
MaxCalls == 2

(* ------------------------------------------------------- float arithmetic *)
NaN == 2000000001
PInf == 2000000000
NInf == -2000000000
\* Fixed-point unit of returns, mu, sigma and Z.
RS == 100
\* Unit of the terminal statistics: 2.5% = 1/40.
ST == 40
\* The annualisation factor and its square root (np.sqrt(365) = 19.1).
Annual == 365
SqrtAnnual == 19

IsNaN(x) == x = NaN
IsInf(x) == x = PInf \/ x = NInf
IsFinite(x) == ~IsNaN(x) /\ ~IsInf(x)

FNeg(a) == IF IsNaN(a) THEN NaN ELSE IF a = PInf THEN NInf ELSE IF a = NInf THEN PInf ELSE -a

FAdd(a, b) ==
    IF IsNaN(a) \/ IsNaN(b) THEN NaN
    ELSE IF IsInf(a) /\ IsInf(b) THEN (IF a = b THEN a ELSE NaN)
    ELSE IF IsInf(a) THEN a
    ELSE IF IsInf(b) THEN b
    ELSE a + b

FSub(a, b) == FAdd(a, FNeg(b))

FSign(a) == IF a = PInf THEN 1 ELSE IF a = NInf THEN -1 ELSE IF a > 0 THEN 1 ELSE IF a < 0 THEN -1 ELSE 0

FMul(a, b) ==
    IF IsNaN(a) \/ IsNaN(b) THEN NaN
    ELSE IF IsInf(a) \/ IsInf(b)
         THEN (IF FSign(a) * FSign(b) = 0 THEN NaN
               ELSE IF FSign(a) * FSign(b) > 0 THEN PInf ELSE NInf)
    ELSE a * b

\* a / k for a finite integer k > 0 (rounded down).
FDivInt(a, k) == IF IsFinite(a) THEN a \div k ELSE a

FSqr(a) == IF IsNaN(a) THEN NaN ELSE IF IsInf(a) THEN PInf ELSE a * a

RECURSIVE ISqrtFrom(_, _)
ISqrtFrom(n, r) == IF (r + 1) * (r + 1) > n THEN r ELSE ISqrtFrom(n, r + 1)

FSqrt(a) ==
    IF IsNaN(a) \/ a = NInf THEN NaN
    ELSE IF a = PInf THEN PInf
    ELSE IF a < 0 THEN NaN
    ELSE ISqrtFrom(a, 0)

\* a <= b as floats: every comparison with NaN is false.
FLe(a, b) ==
    IF IsNaN(a) \/ IsNaN(b) THEN FALSE
    ELSE a <= b

(* ------------------------------------------------------ fetch_crypto_data *)
\* Closing prices the exchange can deliver (None becomes NaN in the frame).
Closes == {0, 100, 200, NaN}

RECURSIVE SeqsUpTo(_, _)
SeqsUpTo(S, n) ==
    IF n = 0 THEN {<<>>}
    ELSE LET shorter == SeqsUpTo(S, n - 1)
         IN  shorter \cup {Append(s, x) : s \in {q \in shorter : Len(q) = n - 1}, x \in S}

\* What exchange.fetch_ohlcv answers: a failure, or rows of which the first
\* `kept` are dated no later than END_DATE.
Feeds ==
    {[net |-> "error", closes |-> <<>>, kept |-> 0]}
    \cup UNION {{[net |-> "ok", closes |-> c, kept |-> k] : k \in 0..Len(c)} :
                 c \in SeqsUpTo(Closes, MaxLen)}

\* Series.pct_change with fill_method='pad': a missing price takes the last one seen.
RECURSIVE FFill(_)
FFill(s) ==
    IF Len(s) <= 1 THEN s
    ELSE LET init == FFill(SubSeq(s, 1, Len(s) - 1))
             last == s[Len(s)]
         IN  Append(init, IF IsNaN(last) THEN init[Len(init)] ELSE last)

\* price_t / price_{t-1} - 1
PctOne(cur, prev) ==
    IF IsNaN(cur) \/ IsNaN(prev) THEN NaN
    ELSE IF prev = 0 THEN (IF cur = 0 THEN NaN ELSE IF cur > 0 THEN PInf ELSE NInf)
    ELSE (cur * RS) \div prev - RS

\* df['close'].pct_change(): the first entry has no predecessor.
PctChange(s, pad) ==
    LET b == IF pad THEN FFill(s) ELSE s
    IN  [t \in 1..Len(s) |-> IF t = 1 THEN NaN ELSE PctOne(b[t], b[t - 1])]

\* .dropna()
DropNa(s) == SelectSeq(s, LAMBDA x : ~IsNaN(x))

RECURSIVE FSum(_)
FSum(s) == IF s = <<>> THEN 0 ELSE FAdd(FSum(SubSeq(s, 1, Len(s) - 1)), s[Len(s)])

Mean(s) == FDivInt(FSum(s), Len(s))

\* Series.std(): sample standard deviation (ddof = 1).
Std(s) ==
    LET avg == Mean(s)
        sqr == FSum([t \in 1..Len(s) |-> FSqr(FSub(avg, s[t]))])
    IN  FSqrt(FDivInt(sqr, Len(s) - 1))

\* except Exception as e: raise Exception(f"Error in ...: {str(e)}").  The source
\* has no exception classes of its own: what leaves fetch_crypto_data and
\* simulate_crypto_prices is always a plain Exception, and `kind` records which
\* raise statement or library call it came from (its message).
Raised(kind) == [status |-> "raise", type |-> "Exception", kind |-> kind]

\* An exception that leaves a function with no try block, as it was raised.
Thrown(kind) == [status |-> "raise", type |-> kind, kind |-> kind]

\* if initial_price <= 0
InitialPriceCheck(p) == FLe(p, 0)

FewReturnsOffByOne(r) == Len(r) < 1
FewReturnsOneTooMany(r) == Len(r) < 3
\* if len(daily_returns) < 2
FewReturns(r) == Len(r) < 2

\* The body of fetch_crypto_data after the frame is built.
Estimate(closes, pad) ==
    LET daily_returns == DropNa(PctChange(closes, pad))
    IN  IF FewReturns(daily_returns) THEN Raised("InsufficientData")
        ELSE LET mu == FMul(Mean(daily_returns), Annual)
                 sigma == FMul(Std(daily_returns), SqrtAnnual)
                 initial_price == closes[Len(closes)]
             IN  IF InitialPriceCheck(initial_price) THEN Raised("InvalidPrice")
                 ELSE IF IsNaN(mu) \/ IsNaN(sigma) THEN Raised("NaN")
                 ELSE [status |-> "return", initial_price |-> initial_price,
                       mu |-> mu, sigma |-> sigma]

\* fetch_crypto_data: every failure leaves as a plain Exception.
FetchCryptoData(f, pad) ==
    IF f.net = "error" THEN Raised("FetchError")
    ELSE IF f.closes = <<>> THEN Raised("NoData")
    ELSE Estimate(SubSeq(f.closes, 1, f.kept), pad)

(* ------------------------------------------------------------------ state *)
VARIABLES
    build,          \* the installed numpy / pandas: what differs between versions
    rng,            \* state of the process-wide np.random generator
    feed,           \* what the exchange answers to the current fetch
    est,            \* what fetch_crypto_data returned or raised
    epc,            \* SpecEst: "call" before the estimator ran, "done" after
    args,           \* arguments of the current simulate_crypto_prices call
    spc,            \* position inside simulate_crypto_prices
    daily_returns,  \* the (sims, days) array of normal draws
    price_paths,    \* the (sims, days) array of prices
    t,              \* the loop variable of simulate_crypto_prices
    sres,           \* what simulate_crypto_prices returned or raised
    calls,          \* calls of simulate_crypto_prices so far in this process
    prev,           \* the ensemble the previous call returned, if it returned one
    fig,            \* what plot_crypto_forecast did with the ensemble
    asset,          \* __main__: index of the asset being processed
    dpc,            \* __main__: position in the loop body
    out,            \* __main__: per asset, what was printed and shown
    ran             \* __main__: per asset, how often each step was run

vars == <<build, rng, feed, est, epc, args, spc, daily_returns, price_paths, t,
          sres, calls, prev, fig, asset, dpc, out, ran>>

simVars == <<args, spc, daily_returns, price_paths, t, sres>>
estVars == <<feed, est, epc>>
mainVars == <<asset, dpc, out, ran>>

Builds == [pad : BOOLEAN, emptyPercentileRaises : BOOLEAN]

None == [status |-> "none"]
NoArgs == [initial_price |-> 0, mu |-> 0, sigma |-> 0, days |-> 0, sims |-> 0]

(* ------------------------------------------------- simulate_crypto_prices *)
\* The standard normal deviates the generator hands out, by generator state.
NoiseTable == <<1, -1, 0, 1, 1, -1, 0, -1, 0, 1, -1>>
Noise(state) == NoiseTable[(state % Len(NoiseTable)) + 1]

RECURSIVE Pow2(_)
Pow2(k) == IF k <= 0 THEN 1 ELSE 2 * Pow2(k - 1)

\* p * np.exp(z)
MulExp(p, z) ==
    IF IsNaN(p) \/ IsNaN(z) THEN NaN
    ELSE LET k == z \div RS
             f == z % RS
         IN  IF k >= 0 THEN (p * Pow2(k) * (RS + f)) \div RS
             ELSE (p * (RS + f)) \div (RS * Pow2(-k))

Rows(a) == 0..(a.sims - 1)
Cols(a) == 0..(a.days - 1)

\* np.random.normal fills the (sims, days) array row by row.
DrawIndex(a, p, d) == p * a.days + d

\* np.random.normal(mu * dt, sigma * np.sqrt(dt), (sims, days)) from generator state r
NormalDraws(a, r) ==
    LET loc == FDivInt(a.mu, Annual)
        scale == FDivInt(a.sigma, SqrtAnnual)
    IN  [p \in Rows(a) |-> [d \in Cols(a) |->
            FAdd(loc, FMul(scale, Noise((r + DrawIndex(a, p, d)) % RngPeriod)))]]

RECURSIVE SortedInsert(_, _)
SortedInsert(s, x) ==
    IF s = <<>> THEN <<x>>
    ELSE IF x <= s[1] THEN <<x>> \o s
    ELSE <<s[1]>> \o SortedInsert(Tail(s), x)

RECURSIVE Sorted(_)
Sorted(s) == IF s = <<>> THEN <<>> ELSE SortedInsert(Sorted(Tail(s)), s[1])

HasNaN(s) == \E j \in 1..Len(s) : IsNaN(s[j])

\* np.percentile(v, q) by linear interpolation, q = num/ST of 100%, times ST.
\* v is not empty.
PercentileST(v, num) ==
    IF HasNaN(v) THEN NaN
    ELSE LET a == Sorted(v)
             pos == num * (Len(v) - 1)
             lo == (pos \div ST) + 1
             frac == pos % ST
         IN  IF frac = 0 THEN ST * a[lo]
             ELSE ST * a[lo] + frac * (a[lo + 1] - a[lo])

MedianSTLowerMiddle(v) ==
    IF v = <<>> \/ HasNaN(v) THEN NaN
    ELSE ST * Sorted(v)[(Len(v) + 1) \div 2]
\* np.median(v), times ST: the middle value, or the mean of the two middle ones;
\* NaN (with a warning) for an empty v.
MedianST(v) ==
    IF v = <<>> \/ HasNaN(v) THEN NaN
    ELSE LET a == Sorted(v)
             n == Len(v)
         IN  IF n % 2 = 1 THEN ST * a[(n + 1) \div 2]
             ELSE (ST \div 2) * (a[n \div 2] + a[n \div 2 + 1])

\* price_paths[:, d] as a sequence
Column(paths, a, d) == [p \in 1..a.sims |-> paths[p - 1][d]]

SimArgs ==
    [initial_price : {100}, mu : {0, 50 * Annual}, sigma : {0, 100 * SqrtAnnual},
     days : (-1)..MaxDays, sims : (-1)..MaxSims]

\* A first call, with any arguments.
SimCall ==
    /\ spc = "idle"
    /\ calls = 0
    /\ \E a \in SimArgs : args' = a
    /\ spc' = "draw"
    /\ calls' = 1
    /\ UNCHANGED <<build, rng, daily_returns, price_paths, t, sres, prev, fig>>
    /\ UNCHANGED <<estVars, mainVars>>

\* A further call in the same process with the same arguments.
SimRepeat ==
    /\ spc \in {"returned", "raised"}
    /\ calls < MaxCalls
    /\ calls' = calls + 1
    /\ prev' = IF spc = "returned" THEN [status |-> "some", paths |-> price_paths] ELSE None
    /\ spc' = "draw"
    /\ daily_returns' = <<>>
    /\ price_paths' = <<>>
    /\ t' = 0
    /\ sres' = None
    /\ fig' = None
    /\ UNCHANGED <<build, rng, args>>
    /\ UNCHANGED <<estVars, mainVars>>

RaiseSim(kind) ==
    /\ spc' = "raised"
    /\ sres' = Raised(kind)

\* dt = 1 / 365; daily_returns = np.random.normal(...): numpy refuses a negative
\* size or scale; otherwise the generator moves on by sims * days draws.
SimDraw ==
    /\ spc = "draw"
    /\ IF args.days < 0 \/ args.sims < 0 \/ (~IsNaN(args.sigma) /\ args.sigma < 0)
       THEN /\ RaiseSim("ValueError")
            /\ UNCHANGED <<rng, daily_returns>>
       ELSE /\ daily_returns' = NormalDraws(args, rng)
            /\ rng' = (rng + args.sims * args.days) % RngPeriod
            /\ spc' = "fill"
            /\ UNCHANGED sres
    /\ UNCHANGED <<build, args, price_paths, t, calls, prev, fig>>
    /\ UNCHANGED <<estVars, mainVars>>

\* price_paths = np.zeros((sims, days)); price_paths[:, 0] = initial_price
FirstColumn(a) ==
    [p \in Rows(a) |-> [d \in Cols(a) |-> IF d = 0 THEN a.initial_price ELSE 0]]

\* np.zeros can fail for want of memory; column 0 does not exist when days = 0.
SimFill ==
    /\ spc = "fill"
    /\ \E allocated \in BOOLEAN :
          IF ~allocated THEN RaiseSim("MemoryError") /\ UNCHANGED <<price_paths, t>>
          ELSE IF args.days = 0 THEN RaiseSim("IndexError") /\ UNCHANGED <<price_paths, t>>
          ELSE /\ price_paths' = FirstColumn(args)
               /\ t' = 1
               /\ spc' = "loop"
               /\ UNCHANGED sres
    /\ UNCHANGED <<build, rng, args, daily_returns, calls, prev, fig>>
    /\ UNCHANGED <<estVars, mainVars>>

StepColumnSameDay(paths, draws, a, d) ==
    [p \in Rows(a) |-> [paths[p] EXCEPT ![d] = MulExp(paths[p][d - 1], draws[p][d - 1])]]
\* price_paths[:, t] = price_paths[:, t-1] * np.exp(daily_returns[:, t])
StepColumn(paths, draws, a, d) ==
    [p \in Rows(a) |-> [paths[p] EXCEPT ![d] = MulExp(paths[p][d - 1], draws[p][d])]]

\* for t in range(1, days)
SimLoop ==
    /\ spc = "loop"
    /\ t < args.days
    /\ price_paths' = StepColumn(price_paths, daily_returns, args, t)
    /\ t' = t + 1
    /\ UNCHANGED <<build, rng, args, spc, daily_returns, sres, calls, prev, fig>>
    /\ UNCHANGED <<estVars, mainVars>>

CiLowerNum == 1
CiUpperNum == 39

\* final_prices = price_paths[:, -1] and its three statistics.  Of an empty
\* column np.median is NaN; np.percentile is NaN or raises, by numpy version.
SimStats ==
    /\ spc = "loop"
    /\ t >= args.days
    /\ LET final_prices == Column(price_paths, args, args.days - 1)
       IN  IF final_prices = <<>> /\ build.emptyPercentileRaises
           THEN /\ RaiseSim("IndexError")
           ELSE /\ sres' = [status |-> "return",
                            median_price |-> MedianST(final_prices),
                            ci_lower |-> IF final_prices = <<>> THEN NaN
                                         ELSE PercentileST(final_prices, CiLowerNum),
                            ci_upper |-> IF final_prices = <<>> THEN NaN
                                         ELSE PercentileST(final_prices, CiUpperNum)]
                /\ spc' = "returned"
    /\ UNCHANGED <<build, rng, args, daily_returns, price_paths, t, calls, prev, fig>>
    /\ UNCHANGED <<estVars, mainVars>>


(* --------------------------------------------------- plot_crypto_forecast *)
Min(a, b) == IF a <= b THEN a ELSE b

\* dates = pd.date_range(start=END_DATE, periods=FORECAST_DAYS), as day offsets
Dates == [d \in 1..FORECAST_DAYS |-> d - 1]

\* for i in range(min(100, N_SIMS))
PlottedRows == 0..(Min(PlotCap, N_SIMS) - 1)

\* plot_crypto_forecast(price_paths, ...) up to fig.show(); a gives the shape of paths.
Figure(paths, a) ==
    IF \E i \in PlottedRows : i \notin Rows(a) THEN Thrown("IndexError")
    ELSE [status |-> "built",
          traces |-> [i \in PlottedRows |-> [x |-> Dates, y |-> paths[i]]],
          median_path |-> [d \in Cols(a) |-> MedianST(Column(paths, a, d))],
          upper |-> [d \in Cols(a) |-> PercentileST(Column(paths, a, d), CiUpperNum)],
          lower |-> [d \in Cols(a) |-> PercentileST(Column(paths, a, d), CiLowerNum)]]

\* The figure after fig.show(), which the display can refuse.
Shown(f, displayed) ==
    IF f.status = "raise" THEN f
    ELSE IF displayed THEN [f EXCEPT !.status = "shown"]
    ELSE Thrown("RenderError")

\* plot_crypto_forecast on the ensemble a call just returned.
PlotCall ==
    /\ spc = "returned"
    /\ dpc = "off"
    /\ fig = None
    /\ \E displayed \in BOOLEAN : fig' = Shown(Figure(price_paths, args), displayed)
    /\ UNCHANGED <<build, rng, calls, prev>>
    /\ UNCHANGED <<simVars, estVars, mainVars>>

(* ------------------------------------------------------- specifications *)
NoFeed == [net |-> "error", closes |-> <<>>, kept |-> 0]

InitSimVars ==
    /\ args = NoArgs
    /\ spc = "idle"
    /\ daily_returns = <<>>
    /\ price_paths = <<>>
    /\ t = 0
    /\ sres = None
    /\ calls = 0
    /\ prev = None
    /\ fig = None

InitMainOff ==
    /\ asset = 0
    /\ dpc = "off"
    /\ out = <<>>
    /\ ran = <<>>

InitEstOff ==
    /\ feed = NoFeed
    /\ est = None
    /\ epc = "off"

\* A process that calls simulate_crypto_prices, and plots what it returns.
InitSim ==
    /\ build \in {b \in Builds : b.pad}
    /\ rng \in 0..(RngPeriod - 1)
    /\ InitSimVars
    /\ InitEstOff
    /\ InitMainOff

NextSim == SimCall \/ SimRepeat \/ SimDraw \/ SimFill \/ SimLoop \/ SimStats \/ PlotCall

SpecSim == InitSim /\ [][NextSim]_vars

\* A process that calls fetch_crypto_data once.
InitEst ==
    /\ build \in {b \in Builds : b.emptyPercentileRaises}
    /\ rng = 0
    /\ feed \in Feeds
    /\ est = None
    /\ epc = "call"
    /\ InitSimVars
    /\ InitMainOff

EstCall ==
    /\ epc = "call"
    /\ est' = FetchCryptoData(feed, build.pad)
    /\ epc' = "done"
    /\ UNCHANGED <<build, rng, feed, calls, prev, fig>>
    /\ UNCHANGED <<simVars, mainVars>>

NextEst == EstCall

SpecEst == InitEst /\ [][NextEst]_vars

(* ---------------------------------------------------------------- __main__ *)
\* crypto_data, in the order the loop visits it.
Assets == <<"BTC", "ETH", "SOL", "BNB">>

\* The answers of the exchange the loop is run against.
DriverSeries ==
    {<<>>, <<100, 200>>, <<100, 100, 100>>, <<100, 200, 100>>, <<100, 200, 0>>,
     <<0, 100, 200>>, <<100, 200, 100, NaN>>}
DriverFeeds ==
    {f \in Feeds : f.net = "error" \/ (f.kept = Len(f.closes) /\ f.closes \in DriverSeries)}

Event(what) == [asset |-> asset, what |-> what]
Count(step) == [ran EXCEPT ![asset][step] = @ + 1]

SimulateArgsSwapped(e) ==
    [initial_price |-> e.initial_price, mu |-> e.sigma, sigma |-> e.mu,
     days |-> FORECAST_DAYS, sims |-> N_SIMS]
\* simulate_crypto_prices(initial_price=initial_price, mu=mu, sigma=sigma)
SimulateArgs(e) ==
    [initial_price |-> e.initial_price, mu |-> e.mu, sigma |-> e.sigma,
     days |-> FORECAST_DAYS, sims |-> N_SIMS]

\* initial_price, mu, sigma = fetch_crypto_data(params['ticker'])
DFetch ==
    /\ dpc = "fetch"
    /\ \E f \in DriverFeeds :
          /\ feed' = f
          /\ est' = FetchCryptoData(f, build.pad)
    /\ ran' = Count("fetch")
    /\ dpc' = IF est'.status = "raise" THEN "except" ELSE "sim"
    /\ UNCHANGED <<build, rng, epc, calls, prev, fig, asset, out>>
    /\ UNCHANGED simVars

\* the call of simulate_crypto_prices
DSimulate ==
    /\ dpc = "sim"
    /\ args' = SimulateArgs(est)
    /\ spc' = "draw"
    /\ ran' = Count("sim")
    /\ dpc' = "simulating"
    /\ UNCHANGED <<build, rng, daily_returns, price_paths, t, sres, calls, prev, fig>>
    /\ UNCHANGED <<estVars, asset, out>>

\* simulate_crypto_prices raised
DSimRaised ==
    /\ dpc = "simulating"
    /\ spc = "raised"
    /\ dpc' = "except"
    /\ UNCHANGED <<build, rng, calls, prev, fig, asset, out, ran>>
    /\ UNCHANGED <<simVars, estVars>>

\* the print calls after simulate_crypto_prices returned
DPrint ==
    /\ dpc = "simulating"
    /\ spc = "returned"
    /\ out' = Append(out, Event("forecast"))
    /\ dpc' = "plot"
    /\ UNCHANGED <<build, rng, calls, prev, fig, asset, ran>>
    /\ UNCHANGED <<simVars, estVars>>

\* plot_crypto_forecast(price_paths, med_price, ci_low, ci_high, crypto, color)
DPlot ==
    /\ dpc = "plot"
    /\ \E displayed \in BOOLEAN : fig' = Shown(Figure(price_paths, args), displayed)
    /\ ran' = Count("plot")
    /\ IF fig'.status = "raise"
       THEN dpc' = "except" /\ UNCHANGED out
       ELSE dpc' = "next" /\ out' = Append(out, Event("figure"))
    /\ UNCHANGED <<build, rng, calls, prev, asset>>
    /\ UNCHANGED <<simVars, estVars>>

DExceptAborts ==
    /\ dpc = "except"
    /\ out' = Append(out, Event("error"))
    /\ dpc' = "done"
    /\ UNCHANGED <<build, rng, calls, prev, fig, asset, ran>>
    /\ UNCHANGED <<simVars, estVars>>
\* except Exception as e: print(f"Error processing {crypto}: ...")
DExcept ==
    /\ dpc = "except"
    /\ out' = Append(out, Event("error"))
    /\ dpc' = "next"
    /\ UNCHANGED <<build, rng, calls, prev, fig, asset, ran>>
    /\ UNCHANGED <<simVars, estVars>>

\* for crypto, params in crypto_data.items(): the next asset, or the end.  The
\* names of the loop body are rebound before they are read again, so their old
\* values are dropped here.
DNext ==
    /\ dpc = "next"
    /\ IF asset < Len(Assets)
       THEN asset' = asset + 1 /\ dpc' = "fetch"
       ELSE asset' = asset /\ dpc' = "done"
    /\ feed' = NoFeed
    /\ est' = None
    /\ args' = NoArgs
    /\ spc' = "idle"
    /\ daily_returns' = <<>>
    /\ price_paths' = <<>>
    /\ t' = 0
    /\ sres' = None
    /\ fig' = None
    /\ UNCHANGED <<build, rng, epc, calls, prev, out, ran>>

InitMain ==
    /\ build \in {b \in Builds : b.emptyPercentileRaises}
    /\ rng \in 0..(RngPeriod - 1)
    /\ InitSimVars
    /\ InitEstOff
    /\ asset = 1
    /\ dpc = "fetch"
    /\ out = <<>>
    /\ ran = [a \in 1..Len(Assets) |-> [fetch |-> 0, sim |-> 0, plot |-> 0]]

NextMain ==
    \/ DFetch \/ DSimulate \/ DSimRaised \/ DPrint \/ DPlot \/ DExcept \/ DNext
    \/ SimDraw \/ SimFill \/ SimLoop \/ SimStats

SpecMain == InitMain /\ [][NextMain]_vars

(* ------------------------------------------------------------------ claims *)
\* The frame the estimator works on: the rows dated no later than END_DATE.
Series == SubSeq(feed.closes, 1, feed.kept)

\* The estimator ran on a frame (the exchange answered with rows).
Estimated == epc = "done" /\ feed.net = "ok" /\ feed.closes # <<>>

\* Returns that can be computed from the series: a price and the one before it
\* are both there (after padding, where pandas pads) and are not both zero.
Computable ==
    LET b == IF build.pad THEN FFill(Series) ELSE Series
    IN  {j \in 2..Len(Series) :
            /\ ~IsNaN(b[j]) /\ ~IsNaN(b[j - 1])
            /\ ~(b[j] = 0 /\ b[j - 1] = 0)}

AllPositive(s) == \A j \in 1..Len(s) : IsFinite(s[j]) /\ s[j] > 0
SomeChange(s) == \E j \in 2..Len(s) : s[j] # s[j - 1]

\* C3: whenever fewer than 2 returns can be computed from the series (a series
\* of length 1 included), the estimator fails at its insufficient-data check and
\* returns no triple.
C3_InsufficientData ==
    (Estimated /\ Cardinality(Computable) < 2)
        => /\ est.status = "raise"
           /\ est.kind = "InsufficientData"
           /\ "initial_price" \notin DOMAIN est
           /\ "mu" \notin DOMAIN est

C3_Witness ==
    /\ Estimated
    /\ Len(Series) = 1
    /\ est.status = "raise"
    /\ est.kind = "InsufficientData"

\* C4 as stated: every series of at least 2 (positive) prices with a price
\* change makes the estimator return finite mu and sigma, sigma >= 0.
C4_TwoPointsSuffice ==
    (Estimated /\ Len(Series) >= 2 /\ AllPositive(Series) /\ SomeChange(Series))
        => /\ est.status = "return"
           /\ IsFinite(est.mu) /\ IsFinite(est.sigma) /\ est.sigma >= 0

\* C4 amended: every series of at least 3 positive prices (2 returns) with a
\* price change makes the estimator return finite mu and sigma, sigma >= 0.
C4_ThreePointsSuffice ==
    (Estimated /\ Len(Series) >= 3 /\ AllPositive(Series) /\ SomeChange(Series))
        => /\ est.status = "return"
           /\ IsFinite(est.mu) /\ IsFinite(est.sigma) /\ est.sigma >= 0

C4_Witness ==
    /\ Estimated
    /\ Len(Series) = 3
    /\ AllPositive(Series) /\ SomeChange(Series)
    /\ est.status = "return"
    /\ est.sigma > 0

\* C5: a returned triple has the last price of the series as initial_price,
\* initial_price > 0, and mu and sigma neither NaN nor infinite.
C5_ReturnedTripleValid ==
    (Estimated /\ est.status = "return")
        => /\ est.initial_price = Series[Len(Series)]
           /\ IsFinite(est.initial_price) /\ est.initial_price > 0
           /\ IsFinite(est.mu) /\ IsFinite(est.sigma)

Returned == spc = "returned"

\* C1: every row of a returned ensemble starts at initial_price and follows
\* price[t] = price[t-1] * exp(Z[row][t]) with the draw of its own row and day;
\* with days = 1 the ensemble is initial_price alone.
C1_GbmRecurrence ==
    (Returned /\ args.days >= 1 /\ args.sims >= 1)
        => /\ DOMAIN price_paths = Rows(args)
           /\ \A p \in Rows(args) :
                /\ DOMAIN price_paths[p] = Cols(args)
                /\ price_paths[p][0] = args.initial_price
                /\ \A d \in 1..(args.days - 1) :
                     price_paths[p][d] = MulExp(price_paths[p][d - 1], daily_returns[p][d])
                /\ \A d \in Cols(args) :
                     daily_returns[p][d] =
                        FAdd(FDivInt(args.mu, Annual),
                             FMul(FDivInt(args.sigma, SqrtAnnual),
                                  Noise((((rng - args.sims * args.days) % RngPeriod)
                                         + p * args.days + d) % RngPeriod)))

C1_Witness ==
    /\ Returned
    /\ args.days >= 3 /\ args.sims >= 2
    /\ \E p, q \in Rows(args) : price_paths[p][args.days - 1] # price_paths[q][args.days - 1]
    /\ \E p \in Rows(args) : daily_returns[p][1] # daily_returns[p][2]

\* C2: a call with days < 1 or sims < 1 raises the documented error kind and
\* never returns.
C2_InvalidConfigRaises ==
    (spc \in {"returned", "raised"} /\ (args.days < 1 \/ args.sims < 1))
        => /\ spc = "raised"
           /\ sres.kind \in {"InvalidConfigError", "EmptyEnsembleError"}

\* C6: a call returns the same ensemble as the previous call with the same
\* arguments in the same process.
C6_SameArgumentsSameEnsemble ==
    (Returned /\ prev.status = "some") => price_paths = prev.paths

FinalPrices == Column(price_paths, args, args.days - 1)

Distinct(s) == \A j, k \in 1..Len(s) : j # k => s[j] # s[k]
ConstantAt(paths, a, v) == \A p \in Rows(a) : \A d \in Cols(a) : paths[p][d] = v

\* C9: the statistics of a non-empty ensemble satisfy
\* ci_lower <= median <= ci_upper and lie within the final-day column; strictly
\* ordered when the terminal prices are pairwise distinct (at least 2 paths);
\* all equal to V when every path is constant at V.
C9_StatisticsOrdered ==
    (Returned /\ args.sims >= 1)
        => /\ sres.ci_lower <= sres.median_price
           /\ sres.median_price <= sres.ci_upper
           /\ \E j \in 1..Len(FinalPrices) : ST * FinalPrices[j] <= sres.ci_lower
           /\ \E j \in 1..Len(FinalPrices) : sres.ci_upper <= ST * FinalPrices[j]
           /\ (args.sims >= 2 /\ Distinct(FinalPrices))
                => (sres.ci_lower < sres.median_price /\ sres.median_price < sres.ci_upper)
           /\ \A v \in {args.initial_price} :
                ConstantAt(price_paths, args, v)
                    => (sres.median_price = ST * v /\ sres.ci_lower = ST * v
                        /\ sres.ci_upper = ST * v)

C9_Witness ==
    /\ Returned
    /\ args.sims >= 3
    /\ Distinct(FinalPrices)
    /\ sres.ci_lower < sres.median_price

C9_WitnessConstant ==
    /\ Returned
    /\ args.sims >= 2 /\ args.days >= 2
    /\ ConstantAt(price_paths, args, args.initial_price)

\* C10: plot_crypto_forecast, given a returned ensemble (days >= 1, sims >= 1),
\* indexes no row beyond it, draws its first min(PlotCap, rows) paths, each
\* against a date axis as long as the path.
C10_PlotFollowsEnsemble ==
    (Returned /\ fig # None /\ args.days >= 1 /\ args.sims >= 1)
        => /\ ~(fig.status = "raise" /\ fig.kind = "IndexError")
           /\ fig.status = "shown"
                => /\ Cardinality(DOMAIN fig.traces) = Min(PlotCap, args.sims)
                   /\ \A i \in DOMAIN fig.traces :
                        Len(fig.traces[i].x) = Cardinality(DOMAIN fig.traces[i].y)

\* What the loop printed and showed for asset a, in order.
Events(a) ==
    LET mine == SelectSeq(out, LAMBDA e : e.asset = a)
    IN  [j \in 1..Len(mine) |-> mine[j].what]

Has(a, what) == \E j \in 1..Len(Events(a)) : Events(a)[j] = what

\* The loop is over, or it can take another step.
Continues ==
    dpc = "done" \/ ENABLED (DFetch \/ DSimulate \/ DSimRaised \/ DPrint \/ DPlot
                           \/ DExcept \/ DNext \/ SimDraw \/ SimFill \/ SimLoop \/ SimStats)

\* C7 as stated: a failure for one asset never ends the loop; every asset is
\* processed exactly once; an asset with an error report has no forecast output.
C7_ErrorInsteadOfForecast ==
    /\ Continues
    /\ \A a \in 1..Len(Assets) : ran[a].fetch <= 1
    /\ \A a \in 1..Len(Assets) : ~(Has(a, "error") /\ Has(a, "forecast"))
    /\ dpc = "done"
        => \A a \in 1..Len(Assets) :
              /\ ran[a].fetch = 1
              /\ Has(a, "error") \/ Has(a, "forecast")

\* C7 amended: a failure for one asset never ends the loop; every asset is
\* processed exactly once, in order; a failing asset produces an error report
\* and no figure, with no forecast output when the fetch or the simulation
\* failed, and after the printed forecast when the rendering failed.
C7_FailureIsolated ==
    /\ Continues
    /\ \A a \in 1..Len(Assets) : ran[a].fetch <= 1
    /\ \A j, k \in 1..Len(out) : j < k => out[j].asset <= out[k].asset
    /\ \A a \in 1..Len(Assets) :
          (a < asset \/ (a = asset /\ dpc \in {"next", "done"}))
              => /\ ran[a].fetch = 1
                 /\ \/ Events(a) = <<"error">> /\ ran[a].plot = 0
                    \/ Events(a) = <<"forecast", "error">> /\ ran[a].plot = 1
                    \/ Events(a) = <<"forecast", "figure">> /\ ran[a].plot = 1
    /\ dpc = "done" => asset = Len(Assets)

C7_Witness ==
    /\ dpc = "done"
    /\ Events(1) = <<"error">> /\ ran[1].sim = 0
    /\ Events(2) = <<"error">> /\ ran[2].sim = 1
    /\ Events(3) = <<"forecast", "error">>
    /\ Events(4) = <<"forecast", "figure">>

\* C8: per asset the steps run in the order estimate, simulate (with its
\* statistics), print, render; the simulation starts only after the estimator
\* returned for that asset and takes exactly its triple; printing and rendering
\* happen only after the simulation returned; no step runs twice for an asset.
C8_SequentialPipeline ==
    /\ \A a \in 1..Len(Assets) :
          /\ ran[a].fetch <= 1 /\ ran[a].sim <= ran[a].fetch /\ ran[a].plot <= ran[a].sim
          /\ a > asset => ran[a].fetch = 0
          /\ Len(Events(a)) <= 2
          /\ Has(a, "forecast") => ran[a].sim = 1
          /\ Has(a, "figure") => (ran[a].plot = 1 /\ Events(a) = <<"forecast", "figure">>)
    /\ ran[asset].sim = 1 /\ dpc # "next" /\ dpc # "done"
        => /\ est.status = "return"
           /\ args.initial_price = est.initial_price
           /\ args.mu = est.mu
           /\ args.sigma = est.sigma
           /\ args.days = FORECAST_DAYS /\ args.sims = N_SIMS
           /\ est = FetchCryptoData(feed, build.pad)
    /\ (dpc = "plot" \/ (ran[asset].plot = 1 /\ dpc # "next" /\ dpc # "done"))
        => (spc = "returned" /\ sres.status = "return" /\ Has(asset, "forecast"))
    /\ (Has(asset, "forecast") /\ dpc # "next" /\ dpc # "done") => spc = "returned"

C8_Witness ==
    /\ dpc = "next"
    /\ asset = 2
    /\ Events(1) = <<"forecast", "figure">>
    /\ Events(2) = <<"forecast", "figure">>
    /\ est.mu # est.sigma
    /\ fig.status = "shown"

====
